---- MODULE Spec2Model ----
(***************************************************************************)
(* Model of the quantumsolver repository: the Deutsch, Bernstein-Vazirani, *)
(* Deutsch-Jozsa and Simon solvers and the instance generators.            *)
(*                                                                         *)
(* A table is a sequence; entry x of the Python list is element x + 1.     *)
(* A binary string is a sequence of the one-character strings "0" and "1". *)
(***************************************************************************)
EXTENDS Integers, Sequences, FiniteSets

VARIABLES
    family,   \* which solver module the request goes to
    pc,       \* control position: "main", "gen", "ready", "error", or a run in flight
    data,     \* the request payload [nbits, f]; the bare-list form is data.f
    gen,      \* the generator's arguments and its output so far
    out       \* per run of a solver: its result, or NoRun

vars == <<family, pc, data, gen, out>>

(***************************************************************************)
(* Bounds of the model.                                                    *)
(***************************************************************************)
MaxLen == 8          \* longest arbitrary bit list sent to a BV / DJ solver
MaxBits == 3         \* largest nbits sent along with an arbitrary list
MaxTrue == 4         \* most indices in a list of true indices
MaxGenBits == 6      \* largest nbits given to the Bernstein-Vazirani generator
MaxDeutschLen == 3   \* longest list sent to a Deutsch solver
MaxDeutschInt == 2   \* largest integer entry sent to a Deutsch solver
MaxSimonLen == 8     \* longest arbitrary table sent to the Simon solver
MaxSimonVal == 3     \* largest entry of an arbitrary Simon table
MaxSimonBits == 3    \* largest nbits given to the Simon generator
MaxSimonOut == 3     \* largest mbits given to the Simon generator

(***************************************************************************)
(* Python integer and string primitives used by the sources.               *)
(***************************************************************************)
RECURSIVE Pow2(_)
Pow2(n) == IF n <= 0 THEN 1 ELSE 2 * Pow2(n - 1)

\* x & y on non-negative integers
RECURSIVE BitAnd(_, _)
BitAnd(x, y) ==
    IF x = 0 \/ y = 0 THEN 0
    ELSE (IF x % 2 = 1 /\ y % 2 = 1 THEN 1 ELSE 0) + 2 * BitAnd(x \div 2, y \div 2)

\* x | y on non-negative integers
RECURSIVE BitOr(_, _)
BitOr(x, y) ==
    IF x = 0 THEN y
    ELSE IF y = 0 THEN x
    ELSE (IF x % 2 = 1 \/ y % 2 = 1 THEN 1 ELSE 0) + 2 * BitOr(x \div 2, y \div 2)

\* x ^ y on non-negative integers
RECURSIVE BitXor(_, _)
BitXor(x, y) ==
    IF x = 0 THEN y
    ELSE IF y = 0 THEN x
    ELSE (((x % 2) + (y % 2)) % 2) + 2 * BitXor(x \div 2, y \div 2)

\* int.bit_count()
RECURSIVE BitCount(_)
BitCount(x) == IF x = 0 THEN 0 ELSE (x % 2) + BitCount(x \div 2)

\* f"{x:b}": the binary digits of x, most significant first, "0" for 0
RECURSIVE FormatBin(_)
FormatBin(x) ==
    IF x < 2 THEN <<IF x = 1 THEN "1" ELSE "0">>
    ELSE Append(FormatBin(x \div 2), IF x % 2 = 1 THEN "1" ELSE "0")

\* str.zfill(width): left-padded with "0" up to width, never cut
RECURSIVE ZFill(_, _)
ZFill(str, width) == IF Len(str) >= width THEN str ELSE ZFill(<<"0">> \o str, width)

\* int(s, 2) of a binary string
RECURSIVE ParseBin(_)
ParseBin(s) ==
    IF s = <<>> THEN 0
    ELSE 2 * ParseBin(SubSeq(s, 1, Len(s) - 1)) + (IF s[Len(s)] = "1" THEN 1 ELSE 0)

\* reversed(s)
Reversed(s) == [k \in 1..Len(s) |-> s[Len(s) + 1 - k]]

\* int(math.log2(n)) for n >= 1
RECURSIVE Log2(_)
Log2(n) == IF n <= 1 THEN 0 ELSE 1 + Log2(n \div 2)

\* the value standing for Python's None where a bit count is expected
NoBits == -1

power_of_two_info(n) ==
    IF n <= 0 THEN [ok |-> FALSE, power |-> NoBits]
    ELSE IF BitAnd(n, n - 1) = 0 THEN [ok |-> TRUE, power |-> Log2(n)]
    ELSE [ok |-> FALSE, power |-> NoBits]

\* [bool(x) for x in lst] on a list of integers
ToBools(lst) == [k \in 1..Len(lst) |-> lst[k] # 0]

\* sum(fbits) of a list of booleans
RECURSIVE SumBools(_)
SumBools(fbits) ==
    IF fbits = <<>> THEN 0
    ELSE (IF fbits[1] THEN 1 ELSE 0) + SumBools(Tail(fbits))

\* all sequences over S of length n, and of length at most n
SeqsOfLen(S, n) == [1..n -> S]
SeqsUpTo(S, n) == UNION {SeqsOfLen(S, k) : k \in 0..n}

(***************************************************************************)
(* Results.  "answer" in the returned dictionary is a Python string: a     *)
(* binary string (kind "string", in bits), a classification or an error    *)
(* description (in msg, the numbers formatted into it in args).            *)
(***************************************************************************)
NoOracle == [gate |-> "none", n |-> 0, s |-> <<>>, output |-> FALSE, fbits |-> <<>>]

NoRun ==
    [kind |-> "none", bits |-> <<>>, msg |-> "", args |-> <<>>,
     oracle |-> NoOracle, trace |-> <<>>, reads |-> {}]

StringAnswer(bits) == [NoRun EXCEPT !.kind = "string", !.bits = bits]
ClassAnswer(msg) == [NoRun EXCEPT !.kind = "classification", !.msg = msg]
ErrorAnswer(msg, args) == [NoRun EXCEPT !.kind = "error", !.msg = msg, !.args = args]

Runs ==
    {"deutsch_classical", "DeutschClassical", "bv_classical",
     "bv_quantum_dict", "bv_quantum_list", "dj_dict", "dj_list", "simon"}

NoGen ==
    [nbits |-> NoBits, mbits |-> NoBits, s |-> <<>>, ftrue |-> {},
     mfield |-> {}, f |-> <<>>, i |-> 0, draws |-> <<>>]

(***************************************************************************)
(* Deutsch, two classical implementations.  A JSON entry of a Deutsch      *)
(* request is a boolean or an integer: [t, v] with v its integer value     *)
(* (Python's True == 1 and False == 0).                                    *)
(***************************************************************************)
PyFalse == [t |-> "bool", v |-> 0]
PyTrue == [t |-> "bool", v |-> 1]
PyInt(n) == [t |-> "int", v |-> n]
PyBool(x) == x.v # 0
PyEq(a, b) == a.v = b.v

\* deutsch_classical.py: the hidden function over the converted list
DeutschF_FirstOnly(lst, x) == PyBool(lst[1])
DeutschF(lst, x) == IF x THEN PyBool(lst[2]) ELSE PyBool(lst[1])

deutsch_classical_solve(lst) ==
    ClassAnswer(IF DeutschF(lst, FALSE) = DeutschF(lst, TRUE)
                THEN "constant" ELSE "balanced")

\* DeutschClassical.py
DeutschClassical_solve(lst) ==
    IF PyEq(lst[1], lst[2]) THEN ClassAnswer("constant") ELSE ClassAnswer("balanced")

DeutschValues == {PyFalse, PyTrue} \cup {PyInt(n) : n \in 0..MaxDeutschInt}
DeutschInputs == UNION {SeqsOfLen(DeutschValues, k) : k \in 2..MaxDeutschLen}

InitDeutsch ==
    /\ family = "deutsch"
    /\ pc = "ready"
    /\ data \in {[nbits |-> NoBits, f |-> l] : l \in DeutschInputs}
    /\ gen = NoGen
    /\ out = [r \in Runs |-> NoRun]

SolveDeutschClassical ==
    /\ family = "deutsch" /\ pc = "ready"
    /\ out["deutsch_classical"] = NoRun
    /\ out' = [out EXCEPT !["deutsch_classical"] = deutsch_classical_solve(data.f)]
    /\ UNCHANGED <<family, pc, data, gen>>

SolveDeutschClassicalOld ==
    /\ family = "deutsch" /\ pc = "ready"
    /\ out["DeutschClassical"] = NoRun
    /\ out' = [out EXCEPT !["DeutschClassical"] = DeutschClassical_solve(data.f)]
    /\ UNCHANGED <<family, pc, data, gen>>

NextDeutsch == SolveDeutschClassical \/ SolveDeutschClassicalOld

SpecDeutsch == InitDeutsch /\ [][NextDeutsch]_vars

\* a Deutsch request whose first two entries are booleans or 0/1
IsBitEntry(x) == x.v \in {0, 1}

(* C5: for every 2-entry table [a, b] with a, b boolean or 0/1, both        *)
(* classical Deutsch solvers answer "constant" iff a == b, and "balanced"   *)
(* otherwise.                                                               *)
C5_DeutschIff ==
    (family = "deutsch" /\ Len(data.f) = 2
        /\ IsBitEntry(data.f[1]) /\ IsBitEntry(data.f[2])) =>
    \A r \in {"deutsch_classical", "DeutschClassical"} :
        out[r] # NoRun =>
            /\ out[r].kind = "classification"
            /\ out[r].msg = (IF PyEq(data.f[1], data.f[2]) THEN "constant" ELSE "balanced")

C5_Witness ==
    /\ family = "deutsch" /\ Len(data.f) = 2
    /\ data.f[1] = PyTrue /\ data.f[2] = PyInt(0)
    /\ out["deutsch_classical"].msg = "balanced"
    /\ out["DeutschClassical"].msg = "balanced"

(***************************************************************************)
(* The quantum execution backend.  An oracle description is the circuit    *)
(* the solver hands to compile_circuit: which builder made it and with     *)
(* what arguments.  OracleF is the boolean function that circuit computes  *)
(* into its last qubit on the basis input x (qubit q holds bit q of x).    *)
(***************************************************************************)
bv_query(s) == [NoOracle EXCEPT !.gate = "bv_query", !.n = Len(s), !.s = s]

dj_constant(num_qubits, output) ==
    [NoOracle EXCEPT !.gate = "dj_constant", !.n = num_qubits, !.output = output]

dj_balanced(num_qubits, fbits) ==
    [NoOracle EXCEPT !.gate = "dj_balanced", !.n = num_qubits, !.fbits = fbits]

\* bv_query: one cx(index, n) per "1" of reversed(s)
BvQueryF(o, x) ==
    Cardinality({index \in 0..(Len(o.s) - 1) :
        Reversed(o.s)[index + 1] = "1" /\ (x \div Pow2(index)) % 2 = 1}) % 2 = 1

\* dj_balanced: per true state, x gates on the qubits set in the state, mcx
\* over all input qubits, and the x gates again; the mcx fires on the inputs
\* whose bits are all 1 once the bits of the state are flipped.
DjBalancedF(o, x) ==
    Cardinality({state \in 0..(Len(o.fbits) - 1) :
        o.fbits[state + 1] /\ BitXor(x, state) = Pow2(o.n) - 1}) % 2 = 1

OracleF(o, x) ==
    CASE o.gate = "bv_query" -> BvQueryF(o, x)
      [] o.gate = "dj_constant" -> o.output
      [] o.gate = "dj_balanced" -> DjBalancedF(o, x)

\* compile_circuit: x on the last qubit, h on all, the oracle, h on the input
\* qubits, measurement of the input qubits.  The amplitude of outcome z is
\* WalshSum / 2^n: the sum over the inputs x of (-1)^(f(x) + x.z).
\* the truth table of the oracle circuit
OracleValues(o) == [x \in 0..(Pow2(o.n) - 1) |-> OracleF(o, x)]

RECURSIVE WalshFrom(_, _, _)
WalshFrom(F, z, x) ==
    IF x \notin DOMAIN F THEN 0
    ELSE (IF F[x] = (BitCount(BitAnd(x, z)) % 2 = 1) THEN 1 ELSE -1)
         + WalshFrom(F, z, x + 1)

WalshSum(F, z) == WalshFrom(F, z, 0)

\* AerSimulator().run(qc, shots=1, memory=True).result().get_memory()[0]: one
\* sample, any outcome of non-zero amplitude, as a string with the highest
\* classical bit first.
Memory(o) ==
    LET F == OracleValues(o)
    IN  {ZFill(FormatBin(z), o.n) : z \in {y \in 0..(Pow2(o.n) - 1) : WalshSum(F, y) # 0}}

Has1(str) == \E k \in 1..Len(str) : str[k] = "1"

(***************************************************************************)
(* Bernstein-Vazirani, classical (bernstein_vazirani_classical.py).        *)
(***************************************************************************)
\* the nested f(x) of both Bernstein-Vazirani solvers
BvF_OffByOne(fbits, x) == IF x >= Len(fbits) \/ x < 0 THEN FALSE ELSE fbits[x]
BvF(fbits, x) == IF x >= Len(fbits) \/ x < 0 THEN FALSE ELSE fbits[x + 1]

\* the indices at which f(x) reads fbits
BvReads(fbits, nbits) == {Pow2(p) : p \in {q \in 0..(nbits - 1) : Pow2(q) < Len(fbits)}}

RECURSIVE BvLoop(_, _, _)
BvLoop(fbits, nbits, p) ==
    IF p >= nbits THEN 0
    ELSE BitOr(IF BvF(fbits, Pow2(p)) THEN Pow2(p) ELSE 0, BvLoop(fbits, nbits, p + 1))

bv_classical_solve(d) ==
    LET nbits == d.nbits
        fbits == ToBools(d.f)
        s == BvLoop(fbits, nbits, 0)
    IN  [StringAnswer(ZFill(FormatBin(s), nbits)) EXCEPT !.reads = BvReads(fbits, nbits)]

(***************************************************************************)
(* Bernstein-Vazirani, quantum path (bernstein_vazirani_quantum.py).       *)
(* Forms: "list" is the bare list data.f, "dict" is {nbits, f}.            *)
(***************************************************************************)
\* the oracle string: "1" where f(1 << i), reversed
BvBitString(fbits, nbits) ==
    Reversed([k \in 1..nbits |-> IF BvF(fbits, Pow2(k - 1)) THEN "1" ELSE "0"])

\* bv_algorithm: the possible results of one run of the backend
bv_algorithm(o, fbits, nbits) ==
    {[StringAnswer(m) EXCEPT !.oracle = o, !.trace = <<"validate", "backend">>,
                             !.reads = BvReads(fbits, nbits)] : m \in Memory(o)}

\* the shape check of the dict form
DictShapeOk(nbits, fbits) == Pow2(nbits) = Len(fbits)

ListBits_OffByOne(fbits) == power_of_two_info(Len(fbits)).power + 1
ListBits(fbits) == power_of_two_info(Len(fbits)).power

bv_quantum_solve(d, form) ==
    LET fbits == ToBools(d.f) IN
    IF form = "list"
    THEN IF ~power_of_two_info(Len(fbits)).ok
         THEN {[ErrorAnswer("function length is not power of 2", <<>>)
                    EXCEPT !.trace = <<"validate">>]}
         ELSE bv_algorithm(bv_query(BvBitString(fbits, ListBits(fbits))),
                           fbits, ListBits(fbits))
    ELSE IF ~DictShapeOk(d.nbits, fbits)
         THEN {[ErrorAnswer("invalid function length != 2^nbits",
                            <<Len(fbits), Pow2(d.nbits)>>)
                    EXCEPT !.trace = <<"validate">>]}
         ELSE bv_algorithm(bv_query(BvBitString(fbits, d.nbits)), fbits, d.nbits)

(***************************************************************************)
(* Deutsch-Jozsa (deutsch_jozsa_quantum.py).                               *)
(***************************************************************************)
\* the oracle chosen from the truth table
DjOracle_CountOnly(nbits, fbits) ==
    IF SumBools(fbits) = 0 THEN dj_constant(nbits, FALSE)
    ELSE dj_constant(nbits, TRUE)
DjOracle(nbits, fbits) ==
    IF SumBools(fbits) = 0 THEN dj_constant(nbits, FALSE)
    ELSE IF Len(fbits) = SumBools(fbits) THEN dj_constant(nbits, TRUE)
    ELSE dj_balanced(nbits, fbits)

\* dj_algorithm: the possible results of one run of the backend
dj_algorithm(o) ==
    {[ClassAnswer(IF Has1(m) THEN "balanced" ELSE "constant")
          EXCEPT !.oracle = o, !.trace = <<"validate", "backend">>] : m \in Memory(o)}

dj_solve(d, form) ==
    LET fbits == ToBools(d.f) IN
    IF form = "list"
    THEN IF ~power_of_two_info(Len(fbits)).ok
         THEN {[ErrorAnswer("invalid function length, need power of 2", <<>>)
                    EXCEPT !.trace = <<"validate">>]}
         ELSE dj_algorithm(DjOracle(ListBits(fbits), fbits))
    ELSE IF ~DictShapeOk(d.nbits, fbits)
         THEN {[ErrorAnswer("invalid function length != 2^nbits",
                            <<Len(fbits), Pow2(d.nbits)>>)
                    EXCEPT !.trace = <<"validate">>]}
         ELSE dj_algorithm(DjOracle(d.nbits, fbits))

(***************************************************************************)
(* The Bernstein-Vazirani instance generator.                              *)
(***************************************************************************)
BvTrueSet_EvenParity(nbits, si) ==
    {i \in 0..(Pow2(nbits) - 1) : BitCount(BitAnd(si, i)) % 2 = 0}
BvTrueSet(nbits, si) ==
    {i \in 0..(Pow2(nbits) - 1) : BitCount(BitAnd(si, i)) % 2 = 1}

bv_generate(nbits, s) ==
    [NoGen EXCEPT !.nbits = nbits, !.s = s, !.ftrue = BvTrueSet(nbits, ParseBin(s))]

\* the explicit table of a set of true indices: entry x is 1 exactly when x
\* is in the set
TableOf(nbits, ftrue) == [k \in 1..Pow2(nbits) |-> IF (k - 1) \in ftrue THEN 1 ELSE 0]

\* the list of a set of indices, in increasing order
RECURSIVE SortedList(_)
SortedList(S) ==
    IF S = {} THEN <<>>
    ELSE LET m == CHOOSE x \in S : \A y \in S : y <= x
         IN  Append(SortedList(S \ {m}), m)

BinStrings(n) == SeqsOfLen({"0", "1"}, n)

(***************************************************************************)
(* Requests to the Bernstein-Vazirani and Deutsch-Jozsa solvers.  A        *)
(* request is any JSON list of small non-negative integers, alone or with  *)
(* an nbits, or the table of a generated instance.  A bare list of length  *)
(* 1 asks the backend for a circuit that measures no qubit; what the       *)
(* simulator library does with it is outside this repository, and such a   *)
(* request is not sent to a quantum-path solver here.                      *)
(***************************************************************************)
BitLists == SeqsUpTo({0, 1}, MaxLen)

IndexLists ==
    UNION {{SortedList(T) : T \in {U \in SUBSET (0..(Pow2(n) - 1)) : Cardinality(U) <= MaxTrue}}
           : n \in 0..MaxBits}

Requests(fam) ==
    {[nbits |-> n, f |-> l] :
        n \in 0..MaxBits,
        l \in {m \in BitLists \cup IndexLists : fam = "bv_classical" \/ Len(m) # 1}}

NoData == [nbits |-> NoBits, f |-> <<>>]
Forms == {"dict", "list"}

Init ==
    /\ family \in {"bv_classical", "bv_quantum", "dj"}
    /\ gen = NoGen
    /\ out = [r \in Runs |-> NoRun]
    /\ \/ pc = "ready" /\ data \in Requests(family)
       \/ pc = "gen" /\ family # "dj" /\ data = NoData

\* generate(nbits, s), and the table of the true-index set it returns
GenerateBV ==
    /\ pc = "gen"
    /\ \E n \in 1..MaxGenBits : \E s \in BinStrings(n) :
          /\ gen' = bv_generate(n, s)
          /\ data' = [nbits |-> n, f |-> TableOf(n, bv_generate(n, s).ftrue)]
    /\ pc' = "ready"
    /\ UNCHANGED <<family, out>>

SolveBvClassical ==
    /\ family = "bv_classical" /\ pc = "ready"
    /\ out["bv_classical"] = NoRun
    /\ out' = [out EXCEPT !["bv_classical"] = bv_classical_solve(data)]
    /\ UNCHANGED <<family, pc, data, gen>>

BvRun(form) == IF form = "dict" THEN "bv_quantum_dict" ELSE "bv_quantum_list"
DjRun(form) == IF form = "dict" THEN "dj_dict" ELSE "dj_list"

SolveBvQuantum(form) ==
    /\ family = "bv_quantum" /\ pc = "ready"
    /\ out[BvRun(form)] = NoRun
    /\ \E r \in bv_quantum_solve(data, form) : out' = [out EXCEPT ![BvRun(form)] = r]
    /\ UNCHANGED <<family, pc, data, gen>>

SolveDj(form) ==
    /\ family = "dj" /\ pc = "ready"
    /\ out[DjRun(form)] = NoRun
    /\ \E r \in dj_solve(data, form) : out' = [out EXCEPT ![DjRun(form)] = r]
    /\ UNCHANGED <<family, pc, data, gen>>

Next ==
    \/ GenerateBV
    \/ SolveBvClassical
    \/ \E form \in Forms : SolveBvQuantum(form)
    \/ \E form \in Forms : SolveDj(form)

Spec == Init /\ [][Next]_vars

(***************************************************************************)
(* Properties of the Bernstein-Vazirani and Deutsch-Jozsa solvers.         *)
(***************************************************************************)
Done(r) == out[r] # NoRun
SameAnswer(a, b) == a.kind = b.kind /\ a.bits = b.bits /\ a.msg = b.msg /\ a.args = b.args
TrueCount == Cardinality({k \in 1..Len(data.f) : data.f[k] # 0})
IsTable == Len(data.f) = Pow2(data.nbits)
IsBitTable == IsTable /\ \A k \in 1..Len(data.f) : data.f[k] \in {0, 1}
TrueSetOf(l) == {l[k] : k \in 1..Len(l)}
IsIndexList(l, n) ==
    /\ \A k \in 1..Len(l) : l[k] < Pow2(n)
    /\ \A j, k \in 1..Len(l) : j < k => l[j] < l[k]

(* C1: for every n from 1 up and every bit string S of length n, the        *)
(* Bernstein-Vazirani solve (classical, and quantum path in both request    *)
(* forms), run on the table whose entry x is true exactly when x is in the  *)
(* true-index set returned by generate(n, S), returns exactly S.            *)
C1_BvRoundTrip ==
    (gen # NoGen /\ gen.nbits >= 1) =>
        /\ data = [nbits |-> gen.nbits, f |-> TableOf(gen.nbits, gen.ftrue)]
        /\ \A r \in {"bv_classical", "bv_quantum_dict", "bv_quantum_list"} :
              Done(r) => out[r].kind = "string" /\ out[r].bits = gen.s

C1_Witness ==
    /\ gen.nbits = 6 /\ gen.s = <<"1", "0", "1", "1", "0", "1">>
    /\ out["bv_quantum_dict"].bits = gen.s
    /\ out["bv_quantum_list"].bits = gen.s

C7_ShapeError ==
    \A r \in {"bv_classical", "bv_quantum_dict", "dj_dict"} :
        (Done(r) /\ ~IsTable) => out[r].kind = "error"

EntryTrue(l, x) == x < Len(l) /\ l[x + 1] # 0

(* C11: the classical Bernstein-Vazirani solve, for every nbits = n >= 0    *)
(* and every entry list, returns a string of "0"/"1" of length exactly n,   *)
(* most significant bit first, whose character for bit i (position n-1-i)   *)
(* is "1" exactly when entries[2^i] is true, and it reads no entry other    *)
(* than those at the indices 2^i, i in [0, n).                              *)
C11_BvClassicalOutput ==
    Done("bv_classical") =>
        LET r == out["bv_classical"]
            n == data.nbits
        IN  /\ r.kind = "string"
            /\ Len(r.bits) = n
            /\ \A i \in 0..(n - 1) :
                  /\ r.bits[n - i] \in {"0", "1"}
                  /\ r.bits[n - i] = "1" <=> EntryTrue(data.f, Pow2(i))
            /\ r.reads \subseteq {Pow2(i) : i \in 0..(n - 1)}

(***************************************************************************)
(* Simon: the brute-force solver (simon_generator.py).                     *)
(***************************************************************************)
\* fmap: the groups [y, xs] in the order their outputs first appear
RECURSIVE FMapFrom(_, _, _, _)
FMapFrom(farray, nbits, s, fmap) ==
    IF s >= Pow2(nbits) THEN fmap
    ELSE LET y == farray[s + 1]
             at == {k \in 1..Len(fmap) : fmap[k].y = y}
         IN  IF at = {}
             THEN FMapFrom(farray, nbits, s + 1, Append(fmap, [y |-> y, xs |-> <<s>>]))
             ELSE LET k == CHOOSE j \in at : TRUE
                  IN  FMapFrom(farray, nbits, s + 1,
                               [fmap EXCEPT ![k].xs = Append(fmap[k].xs, s)])

\* len(ys) == 2
GroupSizeOk_AtLeastTwo(xs) == Len(xs) >= 2
GroupSizeOk(xs) == Len(xs) = 2

\* the loop over fmap.values(): returns at the first group whose size is not 2
CandidatesFrom_FirstGroup(fmap, k, acc) ==
    IF \E j \in 1..Len(fmap) : Len(fmap[j].xs) # 2 THEN [ok |-> FALSE, set |-> acc]
    ELSE [ok |-> TRUE, set |-> {BitXor(fmap[1].xs[1], fmap[1].xs[2])}]
RECURSIVE CandidatesFrom(_, _, _)
CandidatesFrom(fmap, k, acc) ==
    IF k > Len(fmap) THEN [ok |-> TRUE, set |-> acc]
    ELSE IF ~GroupSizeOk(fmap[k].xs) THEN [ok |-> FALSE, set |-> acc]
    ELSE CandidatesFrom(fmap, k + 1, acc \cup {BitXor(fmap[k].xs[1], fmap[k].xs[2])})

SimonShapeOk_AnyLength(n) == [ok |-> n > 0, power |-> Log2(n)]
SimonShapeOk(n) == power_of_two_info(n)

brute_force_simon(farray) ==
    LET info == SimonShapeOk(Len(farray))
        nbits == info.power
    IN  IF ~info.ok
        THEN ErrorAnswer("length of function is not power of 2", <<Len(farray)>>)
        ELSE LET fmap == FMapFrom(farray, nbits, 0, <<>>)
                 cand == CandidatesFrom(fmap, 1, {})
                 read == [NoRun EXCEPT !.reads = 0..(Pow2(nbits) - 1)]
             IN  IF Len(fmap) = Pow2(nbits)
                 THEN [read EXCEPT !.kind = "string", !.bits = ZFill(<<>>, nbits)]
                 ELSE IF ~cand.ok
                 THEN [read EXCEPT !.kind = "error",
                          !.msg = "invalid f: more than two inputs map to the same output"]
                 ELSE IF Cardinality(cand.set) # 1
                 THEN [read EXCEPT !.kind = "error",
                          !.msg = "invalid f: inconsistent secret strings found"]
                 ELSE [read EXCEPT !.kind = "string",
                          !.bits = ZFill(FormatBin(CHOOSE s \in cand.set : TRUE), nbits)]

SimonSolve ==
    /\ family = "simon" /\ pc = "ready"
    /\ out["simon"] = NoRun
    /\ out' = [out EXCEPT !["simon"] = brute_force_simon(data.f)]
    /\ UNCHANGED <<family, pc, data, gen>>

SimonTables == SeqsUpTo(0..MaxSimonVal, MaxSimonLen)

InitSimon ==
    /\ family = "simon"
    /\ pc = "ready"
    /\ data \in {[nbits |-> NoBits, f |-> l] : l \in SimonTables}
    /\ gen = NoGen
    /\ out = [r \in Runs |-> NoRun]

NextSimon == SimonSolve

SpecSimon == InitSimon /\ [][NextSimon]_vars

(***************************************************************************)
(* Simon: the instance generator and main (simon_generator.py).            *)
(* random.shuffle(mfield) followed by mfield.pop() per index draws the     *)
(* values without replacement in any order: mfield is kept as the set of   *)
(* values not popped yet and each pop takes any one of them.               *)
(***************************************************************************)
NoValue == -1

InitGen ==
    /\ family = "simon"
    /\ pc = "main"
    /\ data = NoData
    /\ gen = NoGen
    /\ out = [r \in Runs |-> NoRun]

\* mfield = list(range(2**mbits)), as the set of its values
Field_Half(mbits) == 0..(Pow2(mbits - 1) - 1)
Field(mbits) == 0..(Pow2(mbits) - 1)

\* main: the argument checks, zfill of s, and the entry into generate
SimonMain ==
    /\ pc = "main"
    /\ \E nbits \in 1..MaxSimonBits, mbits \in 1..MaxSimonOut :
       \E s \in UNION {BinStrings(k) : k \in 1..(nbits + 1)} :
          IF mbits < nbits \/ Len(s) > nbits
          THEN /\ pc' = "error"
               /\ gen' = [NoGen EXCEPT !.nbits = nbits, !.mbits = mbits, !.s = s]
          ELSE /\ pc' = "gen"
               /\ gen' = [NoGen EXCEPT !.nbits = nbits, !.mbits = mbits,
                                       !.s = ZFill(s, nbits),
                                       !.mfield = Field(mbits),
                                       !.f = [k \in 1..Pow2(nbits) |-> NoValue]]
    /\ UNCHANGED <<family, data, out>>

\* mfield after mfield.pop() returned v
Remaining_Kept(mfield, v) == mfield
Remaining(mfield, v) == mfield \ {v}

\* the index written along with f[i]
Partner_Self(i, sint) == i
Partner(i, sint) == BitXor(i, sint)

\* one pass of the loop body: f[i] = mfield.pop(); f[i ^ sint] = f[i]
SimonGenStep ==
    /\ pc = "gen"
    /\ gen.i < Pow2(gen.nbits)
    /\ IF gen.mfield = {}
       THEN pc' = "error" /\ gen' = gen
       ELSE /\ \E v \in gen.mfield :
                 gen' = [gen EXCEPT
                            !.mfield = Remaining(@, v),
                            !.f = [[@ EXCEPT ![gen.i + 1] = v]
                                      EXCEPT ![Partner(gen.i, ParseBin(gen.s)) + 1] = v],
                            !.draws = Append(@, <<gen.i, v>>),
                            !.i = @ + 1]
            /\ pc' = "gen"
    /\ UNCHANGED <<family, data, out>>

\* generate returns; main hands data["f"] to brute_force_simon
SimonGenReturn ==
    /\ pc = "gen"
    /\ gen.i = Pow2(gen.nbits)
    /\ data' = [nbits |-> gen.nbits, f |-> gen.f]
    /\ pc' = "ready"
    /\ UNCHANGED <<family, gen, out>>

NextGen == SimonMain \/ SimonGenStep \/ SimonGenReturn \/ SimonSolve

SpecGen == InitGen /\ [][NextGen]_vars

(***************************************************************************)
(* Properties of the Simon solver and generator.                           *)
(***************************************************************************)
IsPow2(n) == \E k \in 0..n : n = Pow2(k)
Preimages(l, y) == {x \in 0..(Len(l) - 1) : l[x + 1] = y}
ValuesOf(l) == {l[k] : k \in 1..Len(l)}
MoreThanTwoMsg == "invalid f: more than two inputs map to the same output"
InconsistentMsg == "invalid f: inconsistent secret strings found"
NotPowerOfTwoMsg == "length of function is not power of 2"

(* C2: for every n, every m >= n, every secret S of length n (the all-zero  *)
(* S included) and every outcome of the shuffle, brute_force_simon applied  *)
(* to the 'f' list produced by generate(n, m, S) returns exactly S.         *)
C2_SimonRoundTrip ==
    (pc = "ready" /\ Done("simon")) =>
        /\ gen.mbits >= gen.nbits /\ Len(gen.s) = gen.nbits
        /\ data.f = gen.f
        /\ out["simon"].kind = "string"
        /\ out["simon"].bits = gen.s

C2_Witness ==
    /\ pc = "ready" /\ Done("simon")
    /\ gen.nbits = 3 /\ gen.mbits = 3 /\ gen.s = <<"1", "0", "1">>
    /\ out["simon"].bits = <<"1", "0", "1">>

(* C3: after the full pass of generate(n, m, S) with m >= n, for every      *)
(* shuffle outcome the table has length 2^n, every entry is an integer in   *)
(* [0, 2^m), and for all x, y: entries[x] = entries[y] iff y = x or         *)
(* y = x XOR S.                                                             *)
C3_SimonTable ==
    (pc \in {"gen", "ready"} /\ gen.i = Pow2(gen.nbits)) =>
        /\ Len(gen.f) = Pow2(gen.nbits)
        /\ \A k \in 1..Len(gen.f) : gen.f[k] \in 0..(Pow2(gen.mbits) - 1)
        /\ LET sint == ParseBin(gen.s)
               last == Len(gen.f) - 1
           IN  \A x, y \in 0..last :
                  (gen.f[x + 1] = gen.f[y + 1]) <=> (y = x \/ y = BitXor(x, sint))

C3_Witness ==
    /\ pc = "ready"
    /\ gen.nbits = 3 /\ gen.mbits = 3 /\ gen.s = <<"0", "1", "1">>
    /\ gen.f = <<5, 2, 2, 5, 7, 0, 0, 7>>

(* C8: brute_force_simon returns the ShapeError description for every input *)
(* whose length is not a power of two (the empty one included), before      *)
(* reading any entry; for a power-of-two length it never returns it.        *)
C8_SimonShape ==
    Done("simon") =>
        IF IsPow2(Len(data.f))
        THEN out["simon"].msg # NotPowerOfTwoMsg
        ELSE /\ out["simon"].kind = "error"
             /\ out["simon"].msg = NotPowerOfTwoMsg
             /\ out["simon"].args = <<Len(data.f)>>
             /\ out["simon"].reads = {}

C8_Witness ==
    /\ data.f = <<0, 1, 0, 1, 2, 2>>
    /\ out["simon"].kind = "error"
    /\ out["simon"].msg = NotPowerOfTwoMsg
    /\ out["simon"].reads = {}

(* C10: for every table of power-of-two length that is not one-to-one,      *)
(* brute_force_simon returns a PromiseViolation description, never a binary *)
(* string, whenever some output value has a number of preimages other than  *)
(* 2 (the 'more than two inputs' message), or when all groups have size 2   *)
(* but two groups yield different XOR candidates (the 'inconsistent secret  *)
(* strings' message).                                                       *)
C10_SimonPromise ==
    (Done("simon") /\ IsPow2(Len(data.f))
        /\ Cardinality(ValuesOf(data.f)) # Len(data.f)) =>
        LET sizes == {Cardinality(Preimages(data.f, y)) : y \in ValuesOf(data.f)}
            xors == {BitXor(x, y) : x, y \in {z \in 0..(Len(data.f) - 1) : TRUE}}
            cands == {c \in xors : \E x, y \in 0..(Len(data.f) - 1) :
                         x < y /\ data.f[x + 1] = data.f[y + 1] /\ c = BitXor(x, y)}
        IN  /\ sizes # {2} =>
                  out["simon"].kind = "error" /\ out["simon"].msg = MoreThanTwoMsg
            /\ (sizes = {2} /\ Cardinality(cands) > 1) =>
                  out["simon"].kind = "error" /\ out["simon"].msg = InconsistentMsg

C10_Witness ==
    /\ data.f = <<0, 0, 1, 2, 1, 2, 3, 3>>
    /\ out["simon"].kind = "error"
    /\ out["simon"].msg = InconsistentMsg

(* C14: for every table of length 2^n, whenever brute_force_simon returns a  *)
(* binary string s rather than an error description, the table satisfies    *)
(* Simon's promise with that s: for all x, y in [0, 2^n), entries[x] =       *)
(* entries[y] iff y = x or y = x XOR s; s has length n, and it is the        *)
(* all-zero string exactly when the table is one-to-one.                     *)
C14_SimonSound ==
    (Done("simon") /\ out["simon"].kind = "string") =>
        LET s == ParseBin(out["simon"].bits)
            last == Len(data.f) - 1
        IN  /\ IsPow2(Len(data.f))
            /\ Pow2(Len(out["simon"].bits)) = Len(data.f)
            /\ \A k \in 1..Len(out["simon"].bits) : out["simon"].bits[k] \in {"0", "1"}
            /\ \A x, y \in 0..last :
                  (data.f[x + 1] = data.f[y + 1]) <=> (y = x \/ y = BitXor(x, s))
            /\ (s = 0) <=> (Cardinality(ValuesOf(data.f)) = Len(data.f))

C14_Witness ==
    /\ data.f = <<2, 0, 3, 1, 3, 1, 2, 0>>
    /\ out["simon"].kind = "string"
    /\ out["simon"].bits = <<"1", "1", "0">>

\* the values drawn so far, in the order of the draws
DrawnValues == {gen.draws[k][2] : k \in 1..Len(gen.draws)}

(* C13: generate(n, m, S) draws exactly one previously unused codomain      *)
(* value per domain index, in increasing index order and 2^n draws in       *)
(* total, and for every m >= n and every S it completes the pass without    *)
(* exhausting the permutation of [0, 2^m).                                  *)
C13_SimonDraws ==
    (gen.f # <<>> /\ gen.mbits >= gen.nbits) =>
        /\ pc # "error"
        /\ Len(gen.draws) = gen.i
        /\ gen.i <= Pow2(gen.nbits)
        /\ \A k \in 1..Len(gen.draws) :
              /\ gen.draws[k][1] = k - 1
              /\ gen.draws[k][2] \in 0..(Pow2(gen.mbits) - 1)
              /\ \A j \in 1..(k - 1) : gen.draws[j][2] # gen.draws[k][2]
        /\ gen.mfield = (0..(Pow2(gen.mbits) - 1)) \ DrawnValues
        /\ pc = "ready" => Len(gen.draws) = Pow2(gen.nbits)

C13_Witness ==
    /\ pc = "ready"
    /\ gen.nbits = 3 /\ gen.mbits = 3 /\ gen.s = <<"1", "1", "0">>
    /\ Len(gen.draws) = 8
    /\ gen.mfield = {}

(***************************************************************************)
(* One quantum-path solve request, step by step: the shape validation,     *)
(* which returns the error description itself, and then the single call    *)
(* AerSimulator().run(qc, shots=1, memory=True).result() of bv_algorithm   *)
(* and dj_algorithm.  The call either gives the measurement or raises; no  *)
(* solve catches an exception, so a raise ends the request.  pc is "ready" *)
(* between requests and the name of the run while a solve is between its   *)
(* validation and its backend call.                                        *)
(***************************************************************************)
QuantumRuns == {"bv_quantum_dict", "bv_quantum_list", "dj_dict", "dj_list"}

RunOf(form) == IF family = "bv_quantum" THEN BvRun(form) ELSE DjRun(form)

ResultsOf(form) ==
    IF family = "bv_quantum" THEN bv_quantum_solve(data, form) ELSE dj_solve(data, form)

\* the early return of solve after a failed shape check
ValidateReturns_Never(results) == FALSE
ValidateReturns(results) == \E r \in results : r.kind = "error"

InitRun ==
    /\ family \in {"bv_quantum", "dj"}
    /\ pc = "ready"
    /\ data \in Requests(family)
    /\ gen = NoGen
    /\ out = [r \in Runs |-> NoRun]

\* solve up to the call of bv_algorithm / dj_algorithm
Validate(form) ==
    /\ pc = "ready"
    /\ out[RunOf(form)] = NoRun
    /\ IF ValidateReturns(ResultsOf(form))
       THEN /\ \E r \in ResultsOf(form) :
                 out' = [out EXCEPT ![RunOf(form)] = [r EXCEPT !.trace = <<"validate">>]]
            /\ pc' = "ready"
       ELSE /\ out' = [out EXCEPT ![RunOf(form)].trace = <<"validate">>]
            /\ pc' = RunOf(form)
    /\ UNCHANGED <<family, data, gen>>

\* the backend call gives a measurement and solve returns the answer
BackendReturns(form) ==
    /\ pc = RunOf(form)
    /\ \E r \in ResultsOf(form) :
          out' = [out EXCEPT ![pc] = [r EXCEPT !.trace = Append(out[pc].trace, "backend")]]
    /\ pc' = "ready"
    /\ UNCHANGED <<family, data, gen>>

\* the backend call raises and the exception leaves solve
BackendRaises(form) ==
    /\ pc = RunOf(form)
    /\ out' = [out EXCEPT ![pc].kind = "raised", ![pc].trace = Append(@, "backend")]
    /\ pc' = "ready"
    /\ UNCHANGED <<family, data, gen>>

NextRun ==
    \/ \E form \in Forms : Validate(form)
    \/ \E form \in Forms : BackendReturns(form)
    \/ \E form \in Forms : BackendRaises(form)

SpecRun == InitRun /\ [][NextRun]_vars

BackendCalls(t) == Cardinality({k \in 1..Len(t) : t[k] = "backend"})

ShapeValid(r) ==
    IF r \in {"bv_quantum_list", "dj_list"} THEN IsPow2(Len(data.f)) ELSE IsTable

(* C12: in every execution of one solve request on the quantum path         *)
(* (Bernstein-Vazirani and Deutsch-Jozsa, both request forms) the backend   *)
(* is invoked at most once, whether it answers or raises, and only after    *)
(* the shape validation has passed; a request that ends in the error        *)
(* description of a failed shape check invokes it zero times.               *)
C12_BackendAtMostOnce ==
    \A r \in QuantumRuns :
        LET t == out[r].trace
        IN  /\ BackendCalls(t) <= 1
            /\ BackendCalls(t) = 1 => (t = <<"validate", "backend">> /\ ShapeValid(r))
            /\ out[r].kind = "error" => (t = <<"validate">> /\ ~ShapeValid(r))
            /\ out[r].kind \in {"string", "classification", "raised"} => BackendCalls(t) = 1

C12_Witness ==
    /\ data = [nbits |-> 2, f |-> <<0, 1>>]
    /\ out["bv_quantum_dict"].kind = "error"
    /\ out["bv_quantum_dict"].trace = <<"validate">>
    /\ out["bv_quantum_list"].kind = "string"
    /\ out["bv_quantum_list"].trace = <<"validate", "backend">>

====
